---- MODULE Spec2Model ----
(***************************************************************************)
(* A model of the blog server of src/main.go: the slug validator, the      *)
(* frontmatter parser, and the three request handlers (HomeHandler,        *)
(* ContactHandler, PostHandler) acting on a posts directory and on a       *)
(* client's cookie jar, and the life of the process from main to its end   *)
(* (ListenAndServe, the signal goroutine, server.Shutdown).                *)
(*                                                                         *)
(* A Go string is modelled as a sequence of characters, each character a   *)
(* one-character TLA+ string; a few non-ASCII characters are written as    *)
(* named tokens ("NBSP", "e-acute").                                       *)
(***************************************************************************)
EXTENDS Integers, Sequences, FiniteSets, TLC

VARIABLES
    arg,      \* the argument handed to a pure function (IsValidSlug, ParseFrontmatter)
    result,   \* what that function returned, or NoResult before the call
    dir,      \* the posts directory: its entries, in file name order
    jar,      \* the client's cookie jar: its "lang" cookie, or NoCookie
    resp,     \* the response to the client's latest request, or NoResponse
    lastHomeLang, \* history: the locale the latest home request resolved, <<>> before any
    mainPc,     \* where main stands: "start", "serving" (in ListenAndServe), "exited"
    sigPc,      \* where the signal goroutine stands: "start", "waiting", "received",
                \* "shutdown" (in server.Shutdown), "done"
    sigChan,    \* the signals buffered in sigChan (capacity 1)
    inShutdown, \* server.Shutdown has closed the listener
    accepted,   \* how many requests the server has accepted so far
    inFlight,   \* the accepted requests whose handler is still running
    completed,  \* the requests whose handler returned
    aborted,    \* the requests cut off by the end of the process
    elapsed     \* seconds since the shutdown context was created

lifecycle == <<mainPc, sigPc, sigChan, inShutdown, accepted, inFlight, completed,
               aborted, elapsed>>

web == <<arg, result, dir, jar, resp, lastHomeLang>>

vars == <<web, lifecycle>>

(***************************************************************************)
(* Bounds of the model.                                                    *)
(***************************************************************************)
MaxSlugLen == 3
MaxChunks == 4
MaxFiles == 3
MaxRequests == 3

(***************************************************************************)
(* The states before anything has happened.                                *)
(***************************************************************************)
NoResult == [fn |-> "none"]
NoCookie == [present |-> FALSE]
NoResponse == [handler |-> "none"]

\* The process as main starts: no listener yet, the signal goroutine not yet
\* scheduled.
Booted ==
    /\ mainPc = "start"
    /\ sigPc = "start"
    /\ sigChan = <<>>
    /\ inShutdown = FALSE
    /\ accepted = 0
    /\ inFlight = {}
    /\ completed = {}
    /\ aborted = {}
    /\ elapsed = 0

\* The process while it serves: main in ListenAndServe, the goroutine waiting
\* for a signal.
Serving ==
    /\ mainPc = "serving"
    /\ sigPc = "waiting"
    /\ sigChan = <<>>
    /\ inShutdown = FALSE
    /\ accepted = 0
    /\ inFlight = {}
    /\ completed = {}
    /\ aborted = {}
    /\ elapsed = 0

(***************************************************************************)
(* strings: the helpers of package strings that the code uses.             *)
(***************************************************************************)
RECURSIVE Concat(_)
Concat(ss) == IF ss = <<>> THEN <<>> ELSE Head(ss) \o Concat(Tail(ss))

HasPrefix(s, prefix) ==
    /\ Len(s) >= Len(prefix)
    /\ SubSeq(s, 1, Len(prefix)) = prefix

HasSuffix(s, suffix) ==
    /\ Len(s) >= Len(suffix)
    /\ SubSeq(s, Len(s) - Len(suffix) + 1, Len(s)) = suffix

TrimSuffix(s, suffix) ==
    IF HasSuffix(s, suffix) THEN SubSeq(s, 1, Len(s) - Len(suffix)) ELSE s

\* strings.Index as a left-to-right scan: the 1-based position of the first
\* occurrence of sep in s at or after position i, 0 when there is none.
RECURSIVE IndexFrom(_, _, _)
IndexFrom(s, sep, i) ==
    IF i + Len(sep) - 1 > Len(s) THEN 0
    ELSE IF SubSeq(s, i, i + Len(sep) - 1) = sep THEN i
    ELSE IndexFrom(s, sep, i + 1)

Index(s, sep) == IndexFrom(s, sep, 1)

\* strings.SplitN(s, sep, 2): one part when sep does not occur, otherwise the
\* text before the first occurrence and the text after it.
SplitN2(s, sep) ==
    LET k == Index(s, sep)
    IN  IF k = 0 THEN <<s>>
        ELSE <<SubSeq(s, 1, k - 1), SubSeq(s, k + Len(sep), Len(s))>>

\* strings.Split(s, sep): every part.
RECURSIVE Split(_, _)
Split(s, sep) ==
    LET k == Index(s, sep)
    IN  IF k = 0 THEN <<s>>
        ELSE <<SubSeq(s, 1, k - 1)>> \o Split(SubSeq(s, k + Len(sep), Len(s)), sep)

\* unicode.IsSpace: the white space strings.TrimSpace removes.
WhiteSpace == {" ", "\t", "\n", "\r", "\f", "VT", "NEL", "NBSP"}

RECURSIVE TrimLeft(_)
TrimLeft(s) ==
    IF s # <<>> /\ Head(s) \in WhiteSpace THEN TrimLeft(Tail(s)) ELSE s

RECURSIVE TrimRight(_)
TrimRight(s) ==
    IF s # <<>> /\ s[Len(s)] \in WhiteSpace
    THEN TrimRight(SubSeq(s, 1, Len(s) - 1))
    ELSE s

TrimSpace(s) == TrimRight(TrimLeft(s))

RECURSIVE ReplaceAll(_, _, _)
ReplaceAll(s, old, new) ==
    IF s = <<>> THEN <<>>
    ELSE (IF Head(s) = old THEN <<new>> ELSE <<Head(s)>>) \o ReplaceAll(Tail(s), old, new)

\* All sequences over S of length at most n.
RECURSIVE SeqsUpTo(_, _)
SeqsUpTo(S, n) ==
    IF n = 0 THEN {<<>>}
    ELSE LET shorter == SeqsUpTo(S, n - 1)
         IN  shorter \cup {Append(s, c) : s \in shorter, c \in S}

(***************************************************************************)
(* IsValidSlug: validSlugRegex = ^[a-zA-Z0-9_-]+$ matched against the slug. *)
(***************************************************************************)
LowerLetters == {"a", "b", "c", "d", "e", "f", "g", "h", "i", "j", "k", "l", "m",
                 "n", "o", "p", "q", "r", "s", "t", "u", "v", "w", "x", "y", "z"}
UpperLetters == {"A", "B", "C", "D", "E", "F", "G", "H", "I", "J", "K", "L", "M",
                 "N", "O", "P", "Q", "R", "S", "T", "U", "V", "W", "X", "Y", "Z"}
Digits == {"0", "1", "2", "3", "4", "5", "6", "7", "8", "9"}

\* The character class [a-zA-Z0-9_-].
SlugClass == LowerLetters \cup UpperLetters \cup Digits \cup {"_", "-"}

\* The greedy repetition [..]+ from position i: the position after the
\* longest run of class characters that starts at i.
RECURSIVE ClassRun(_, _)
ClassRun(s, i) ==
    IF i <= Len(s) /\ s[i] \in SlugClass THEN ClassRun(s, i + 1) ELSE i

\* A regular expression whose $ also matches before a final newline, as in
\* the Perl-style engines: not what Go's regexp does.
MatchLenientEnd(s) ==
    LET end == ClassRun(s, 1)
    IN  /\ end > 1
        /\ \/ end = Len(s) + 1
           \/ end = Len(s) /\ s[end] = "\n"

\* Go's regexp: ^ is the start of the text, $ is the end of the text.
validSlugRegex(s) ==
    LET end == ClassRun(s, 1)
    IN  /\ end > 1
        /\ end = Len(s) + 1

IsValidSlug(slug) == validSlugRegex(slug)

(***************************************************************************)
(* yaml.Unmarshal into a PostFrontmatter, for the documents the posts use:  *)
(* lines that start in the first column, each blank, a "key: value" pair    *)
(* with a plain scalar, an empty value or the flow sequence [], or          *)
(* something else. Indented entries, quoting, comments and block scalars    *)
(* do not occur in the documents this model decodes.                        *)
(***************************************************************************)
EmptyFM == [Title |-> <<>>, Date |-> <<>>]

TitleKey == <<"t", "i", "t", "l", "e">>
DateKey == <<"d", "a", "t", "e">>

RECURSIVE StripSpaces(_)
StripSpaces(s) ==
    IF s # <<>> /\ Head(s) = " " THEN StripSpaces(Tail(s))
    ELSE IF s # <<>> /\ s[Len(s)] = " " THEN StripSpaces(SubSeq(s, 1, Len(s) - 1))
    ELSE s

\* The position of the mapping indicator of a line: the first ':' that ends
\* the line or is followed by a space; 0 when there is none.
RECURSIVE KeyEnd(_, _)
KeyEnd(line, i) ==
    IF i > Len(line) THEN 0
    ELSE IF line[i] = ":" /\ (i = Len(line) \/ line[i + 1] = " ") THEN i
    ELSE KeyEnd(line, i + 1)

\* What the scanner makes of one line.
\*   blank:  nothing on it
\*   pair:   key and value of a block mapping entry; the value is a "scalar",
\*           "null" (nothing after the colon) or "seq" (the flow sequence [])
\*   other:  anything that is not an entry of a block mapping in the first
\*           column (a bare scalar, a "- " sequence entry, an indented line,
\*           an unfinished flow sequence)
YamlLine(line) ==
    LET k == KeyEnd(line, 1)
        val == IF k = 0 THEN <<>> ELSE StripSpaces(SubSeq(line, k + 1, Len(line)))
        other == [kind |-> "other", key |-> <<>>, val |-> <<>>, valKind |-> "none"]
    IN  IF StripSpaces(line) = <<>>
        THEN [kind |-> "blank", key |-> <<>>, val |-> <<>>, valKind |-> "none"]
        ELSE IF \/ k <= 1
                \/ Head(line) = " "
                \/ Head(line) = "-" /\ line[2] = " "
                \/ val # <<>> /\ Head(val) = "[" /\ val # <<"[", "]">>
        THEN other
        ELSE [kind |-> "pair", key |-> SubSeq(line, 1, k - 1), val |-> val,
              valKind |-> IF val = <<>> THEN "null"
                          ELSE IF Head(val) = "[" THEN "seq" ELSE "scalar"]

\* The decoder's walk over the entries of the mapping, in order: a key that
\* names no field is skipped; a field seen before is a type error and keeps
\* its first value; a sequence cannot be stored in a string field, which is
\* a type error that leaves the field alone; the walk goes on after a type
\* error.
RECURSIVE DecodeEntries(_, _)
DecodeEntries(entries, acc) ==
    IF entries = <<>> THEN acc
    ELSE LET e == Head(entries)
             field == IF e.key = TitleKey THEN "Title"
                      ELSE IF e.key = DateKey THEN "Date" ELSE "none"
             next ==
                 IF field = "none" THEN acc
                 ELSE IF field \in acc.done THEN [acc EXCEPT !.err = TRUE]
                 ELSE IF e.valKind = "seq"
                 THEN [acc EXCEPT !.err = TRUE, !.done = @ \cup {field}]
                 ELSE [acc EXCEPT !.fm[field] = e.val, !.done = @ \cup {field}]
         IN  DecodeEntries(Tail(entries), next)

\* yaml.Unmarshal(text, &fm) with fm empty on entry: the fields afterwards and
\* whether an error was returned. A document that is not a block mapping (or
\* does not parse) decodes nothing; an empty document is no error.
YamlUnmarshal(text) ==
    LET lines == [i \in 1..Len(Split(text, <<"\n">>)) |-> YamlLine(Split(text, <<"\n">>)[i])]
        entries == SelectSeq(lines, LAMBDA l : l.kind = "pair")
    IN  IF \E i \in 1..Len(lines) : lines[i].kind = "other"
        THEN [fm |-> EmptyFM, err |-> TRUE]
        ELSE LET d == DecodeEntries(entries, [fm |-> EmptyFM, done |-> {}, err |-> FALSE])
             IN  [fm |-> d.fm, err |-> d.err]

(***************************************************************************)
(* ParseFrontmatter                                                        *)
(***************************************************************************)
Delim == <<"-", "-", "-">>

\* A split at the last occurrence of the delimiter instead of the first.
RECURSIVE LastIndexFrom(_, _, _)
LastIndexFrom(s, sep, i) ==
    IF i < 1 THEN 0
    ELSE IF SubSeq(s, i, i + Len(sep) - 1) = sep THEN i
    ELSE LastIndexFrom(s, sep, i - 1)

SplitAtLast(s) ==
    LET k == LastIndexFrom(s, Delim, Len(s) - Len(Delim) + 1)
    IN  IF k = 0 THEN <<s>>
        ELSE <<SubSeq(s, 1, k - 1), SubSeq(s, k + Len(Delim), Len(s))>>

\* parts := strings.SplitN(content[3:], "---", 2)
FrontmatterParts(rest) == SplitN2(rest, Delim)

\* A parser that trims the body on the fail-open paths too.
FailOpenTrimmed(content) ==
    [fm |-> EmptyFM, body |-> TrimSpace(content), decoded |-> <<>>, warned |-> FALSE]

\* return fm, content: nothing decoded, the input handed back as it came.
FailOpen(content) ==
    [fm |-> EmptyFM, body |-> content, decoded |-> <<>>, warned |-> FALSE]

\* The result: the frontmatter, the body, the text handed to yaml.Unmarshal
\* (<<text>>, or <<>> when the decoder was not called) and whether the
\* decoder's error was logged.
ParseFrontmatter(content) ==
    IF ~HasPrefix(content, Delim) THEN FailOpen(content)
    ELSE LET parts == FrontmatterParts(SubSeq(content, 4, Len(content)))
         IN  IF Len(parts) < 2 THEN FailOpen(content)
             ELSE LET y == YamlUnmarshal(parts[1])
                  IN  [fm |-> y.fm, body |-> TrimSpace(parts[2]),
                       decoded |-> <<parts[1]>>, warned |-> y.err]

(***************************************************************************)
(* time: a time.Time is its calendar fields in UTC, to the hour. The zero   *)
(* time.Time is 0001-01-01 00:00 UTC.                                       *)
(***************************************************************************)
ZeroTime == [y |-> 1, m |-> 1, d |-> 1, h |-> 0]

\* Days from 0001-01-01 to the given day of the proleptic Gregorian calendar
\* (negative for the year 0000).
DaysFromCivil(y, m, d) ==
    LET yy == IF m <= 2 THEN y - 1 ELSE y
        era == yy \div 400
        yoe == yy - era * 400
        mp == IF m > 2 THEN m - 3 ELSE m + 9
        doy == (153 * mp + 2) \div 5 + d - 1
        doe == yoe * 365 + yoe \div 4 - yoe \div 100 + doy
    IN  era * 146097 + doe - 306

\* The hours from the zero time to t.
Instant(t) == DaysFromCivil(t.y, t.m, t.d) * 24 + t.h

\* t.After(u)
After(t, u) == Instant(t) > Instant(u)

IsLeap(y) == y % 4 = 0 /\ (y % 100 # 0 \/ y % 400 = 0)

DaysIn(m, y) ==
    IF m = 2 THEN (IF IsLeap(y) THEN 29 ELSE 28)
    ELSE IF m \in {4, 6, 9, 11} THEN 30 ELSE 31

DigitSeq == <<"0", "1", "2", "3", "4", "5", "6", "7", "8", "9">>

DigitVal(c) == (CHOOSE i \in 1..10 : DigitSeq[i] = c) - 1

RECURSIVE Atoi(_)
Atoi(s) == IF s = <<>> THEN 0 ELSE Atoi(SubSeq(s, 1, Len(s) - 1)) * 10 + DigitVal(s[Len(s)])

\* time.Parse("2006-01-02", s): four digits, '-', two digits, '-', two
\* digits and nothing else, the month in 1..12 and the day in the month.
ParseDate(s) ==
    LET wellFormed ==
            /\ Len(s) = 10
            /\ s[5] = "-" /\ s[8] = "-"
            /\ \A i \in {1, 2, 3, 4, 6, 7, 9, 10} : s[i] \in Digits
        y == Atoi(SubSeq(s, 1, 4))
        m == Atoi(SubSeq(s, 6, 7))
        d == Atoi(SubSeq(s, 9, 10))
    IN  IF wellFormed /\ m \in 1..12 /\ d \in 1..DaysIn(m, y)
        THEN [ok |-> TRUE, t |-> [y |-> y, m |-> m, d |-> d, h |-> 0]]
        ELSE [ok |-> FALSE, t |-> ZeroTime]

\* t.Format("Jan 2, 2006"): the month, the day and the year shown.
FormatDate(t) == <<t.m, t.d, t.y>>

(***************************************************************************)
(* toTitleCase: cases.Title(language.English), which upper-cases the first  *)
(* letter of each word and lower-cases the others.                          *)
(***************************************************************************)
LowerSeq == <<"a", "b", "c", "d", "e", "f", "g", "h", "i", "j", "k", "l", "m",
              "n", "o", "p", "q", "r", "s", "t", "u", "v", "w", "x", "y", "z">>
UpperSeq == <<"A", "B", "C", "D", "E", "F", "G", "H", "I", "J", "K", "L", "M",
              "N", "O", "P", "Q", "R", "S", "T", "U", "V", "W", "X", "Y", "Z">>

ToUpper(c) ==
    IF c \in LowerLetters THEN UpperSeq[CHOOSE i \in 1..26 : LowerSeq[i] = c] ELSE c

ToLower(c) ==
    IF c \in UpperLetters THEN LowerSeq[CHOOSE i \in 1..26 : UpperSeq[i] = c] ELSE c

RECURSIVE TitleFrom(_, _)
TitleFrom(s, wordStart) ==
    IF s = <<>> THEN <<>>
    ELSE <<IF wordStart THEN ToUpper(Head(s)) ELSE ToLower(Head(s))>>
         \o TitleFrom(Tail(s), Head(s) = " ")

toTitleCase(s) == TitleFrom(s, TRUE)

(***************************************************************************)
(* IsValidSlug applied to every short string over an alphabet that holds    *)
(* characters of the class, separators, white space, markup and a          *)
(* non-ASCII letter.                                                       *)
(***************************************************************************)
SlugAlphabet == {"a", "Z", "7", "-", "_", "/", ".", " ", "\n", "<", ">", "&", "e-acute"}

SlugInputs == SeqsUpTo(SlugAlphabet, MaxSlugLen)

InitSlug ==
    /\ arg \in SlugInputs
    /\ result = NoResult
    /\ dir = <<>>
    /\ jar = NoCookie
    /\ resp = NoResponse
    /\ lastHomeLang = <<>>
    /\ Booted

CallIsValidSlug ==
    /\ result = NoResult
    /\ result' = [fn |-> "IsValidSlug", ok |-> IsValidSlug(arg)]
    /\ UNCHANGED <<arg, dir, jar, resp, lastHomeLang, lifecycle>>

NextSlug == CallIsValidSlug

SpecSlug == InitSlug /\ [][NextSlug]_vars

(***************************************************************************)
(* ParseFrontmatter applied to every document made of a few pieces: the     *)
(* delimiter, single dashes, text, white space and metadata lines.          *)
(***************************************************************************)
TitleLine == <<"t", "i", "t", "l", "e", ":", " ", "A", "\n">>
DateLine == <<"d", "a", "t", "e", ":", " ", "2", "0", "2", "6", "-", "0", "1", "-", "2", "0", "\n">>
SeqDateLine == <<"d", "a", "t", "e", ":", " ", "[", "]", "\n">>

Chunks == {Delim, <<"-">>, <<"x">>, <<" ", "\n">>, TitleLine, DateLine, SeqDateLine}

FMInputs == {Concat(cs) : cs \in SeqsUpTo(Chunks, MaxChunks)}

InitFM ==
    /\ arg \in FMInputs
    /\ result = NoResult
    /\ dir = <<>>
    /\ jar = NoCookie
    /\ resp = NoResponse
    /\ lastHomeLang = <<>>
    /\ Booted

CallParseFrontmatter ==
    /\ result = NoResult
    /\ result' = [fn |-> "ParseFrontmatter"] @@ ParseFrontmatter(arg)
    /\ UNCHANGED <<arg, dir, jar, resp, lastHomeLang, lifecycle>>

NextFM == CallParseFrontmatter

SpecFM == InitFM /\ [][NextFM]_vars

(***************************************************************************)
(* The posts directory and the reader.                                      *)
(*                                                                         *)
(* A file of the directory: its name, its content, its modification time,  *)
(* whether it can be read (os.ReadFile, os.Open) and whether its DirEntry's *)
(* Info() succeeds.                                                        *)
(***************************************************************************)
MdExt == <<".", "m", "d">>

En == <<"e", "n">>
Th == <<"t", "h">>

\* The file of the directory with this name: <<file>>, or <<>>.
Lookup(files, name) == SelectSeq(files, LAMBDA f : f.name = name)

\* Files next to the posts directory, which "posts/../<name>" names.
ReadmeMd == <<"R", "E", "A", "D", "M", "E", ".", "m", "d">>
ReadmeText == <<"#", " ", "B", "l", "o", "g">>
OutsideFiles ==
    <<[name |-> ReadmeMd, content |-> ReadmeText,
       mtime |-> [y |-> 2026, m |-> 1, d |-> 10, h |-> 9], readable |-> TRUE, infoOk |-> TRUE]>>

\* A reader that finds a document for every slug.
ReadNeverFails(files, slug) == [ok |-> TRUE, content |-> <<"x">>]

\* FileReader.Read: os.Open(filepath.Join("posts", slug+".md")) and
\* io.ReadAll. Join cleans the path, so a leading "../" leaves the posts
\* directory; there are no directories below it.
FileReaderRead(files, slug) ==
    LET name == slug \o MdExt
        up == <<".", ".", "/">>
        inParent == HasPrefix(name, up)
        base == IF inParent THEN SubSeq(name, 4, Len(name)) ELSE name
        found == IF \E i \in 1..Len(base) : base[i] = "/" THEN <<>>
                 ELSE Lookup(IF inParent THEN OutsideFiles ELSE files, base)
    IN  IF found # <<>> /\ found[1].readable
        THEN [ok |-> TRUE, content |-> found[1].content]
        ELSE [ok |-> FALSE, content |-> <<>>]

(***************************************************************************)
(* Responses.                                                              *)
(***************************************************************************)
NoHeaders ==
    [XContentTypeOptions |-> "", XFrameOptions |-> "", XXSSProtection |-> "",
     ReferrerPolicy |-> "", ContentType |-> ""]

setSecurityHeaders(h) ==
    [h EXCEPT !.XContentTypeOptions = "nosniff",
              !.XFrameOptions = "DENY",
              !.XXSSProtection = "1; mode=block",
              !.ReferrerPolicy = "strict-origin-when-cross-origin"]

\* An http.Error that answers from a fresh header map.
HttpErrorFreshHeaders(h, code) ==
    [status |-> code,
     headers |-> [NoHeaders EXCEPT !.ContentType = "text/plain; charset=utf-8",
                                   !.XContentTypeOptions = "nosniff"],
     page |-> "error"]

\* http.Error(w, msg, code) before anything was written: a plain-text reply.
HttpError(h, code) ==
    [status |-> code,
     headers |-> [h EXCEPT !.ContentType = "text/plain; charset=utf-8",
                           !.XContentTypeOptions = "nosniff"],
     page |-> "error"]

\* How executing templates/base.html ends.
TemplateOutcomes == {"ok", "failsBeforeOutput", "failsAfterOutput"}

\* renderPage: the template writes the page; when it fails, http.Error sets
\* status 500 if nothing was written yet, and otherwise the status already
\* sent (200) stands and the page is cut short.
renderPage(h, tmplOutcome) ==
    LET html == [h EXCEPT !.ContentType = "text/html; charset=utf-8"]
    IN  IF tmplOutcome = "failsBeforeOutput" THEN HttpError(html, 500)
        ELSE [status |-> 200, headers |-> html,
              page |-> IF tmplOutcome = "ok" THEN "full" ELSE "partial"]

(***************************************************************************)
(* Locale resolution and the lang cookie.                                  *)
(***************************************************************************)
OneYear == 31536000

\* A cookie that always carries the default locale.
DefaultLangCookie(lang) == [present |-> TRUE, value |-> Th, path |-> "/", maxAge |-> OneYear]

\* http.SetCookie(w, &http.Cookie{Name: "lang", Value: lang, Path: "/", MaxAge: 31536000})
LangCookie(lang) == [present |-> TRUE, value |-> lang, path |-> "/", maxAge |-> OneYear]

\* A resolution that falls back to the cookie when the query parameter is
\* not a known locale.
ResolveLangCookieFallback(query, cookie) ==
    LET known == {En, Th}
    IN  IF query \in known THEN query
        ELSE IF cookie.present /\ cookie.value \in known THEN cookie.value
        ELSE Th

\* lang := r.URL.Query().Get("lang"); the cookie when that is empty; "th"
\* when the result is neither "en" nor "th". The query is <<>> when the
\* parameter is absent or empty.
ResolveLang(query, cookie) ==
    LET fromQuery == query
        candidate == IF fromQuery = <<>>
                     THEN (IF cookie.present THEN cookie.value ELSE fromQuery)
                     ELSE fromQuery
    IN  IF candidate # En /\ candidate # Th THEN Th ELSE candidate

\* A contact handler that stores the locale as the home handler does.
ContactStoresLocale(lang) == LangCookie(lang)

\* ContactHandler makes no call of http.SetCookie: the cookie it sets.
ContactCookie(lang) == NoCookie

\* The cookie jar of a client that stores the cookies it is sent.
Store(old, setCookie) == IF setCookie.present THEN setCookie ELSE old

(***************************************************************************)
(* HomeHandler: the listing.                                               *)
(***************************************************************************)
\* A language test that forgets the hyphen of the prefix.
HasLangTagNoHyphen(slug) == HasPrefix(slug, Th) \/ HasPrefix(slug, En)

hasLangPrefix(slug) ==
    HasPrefix(slug, Th \o <<"-">>) \/ HasPrefix(slug, En \o <<"-">>)

\* Whether the loop goes on to read the file with this slug.
LangIncluded(slug, lang) ==
    IF hasLangPrefix(slug) THEN HasPrefix(slug, lang \o <<"-">>) ELSE TRUE

\* Use frontmatter title or generate from slug (language prefix removed).
HomeTitle(fm, slug) ==
    IF fm.Title # <<>> THEN fm.Title
    ELSE LET displaySlug == IF HasPrefix(slug, Th \o <<"-">>) \/ HasPrefix(slug, En \o <<"-">>)
                            THEN SubSeq(slug, 4, Len(slug)) ELSE slug
         IN  toTitleCase(ReplaceAll(displaySlug, "-", " "))

\* Parse date from frontmatter or use file modification time; with neither
\* the Post keeps the zero Date and an empty DateStr.
HomeDate(fm, f) ==
    LET parsed == IF fm.Date # <<>> THEN ParseDate(fm.Date) ELSE [ok |-> FALSE, t |-> ZeroTime]
    IN  IF parsed.ok THEN [Date |-> parsed.t, DateStr |-> FormatDate(parsed.t)]
        ELSE IF f.infoOk THEN [Date |-> f.mtime, DateStr |-> FormatDate(f.mtime)]
        ELSE [Date |-> ZeroTime, DateStr |-> <<>>]

\* One turn of the loop over the directory's entries: the Post appended for
\* this entry, if any.
HomePost(f, lang) ==
    IF ~HasSuffix(f.name, MdExt) THEN <<>>
    ELSE LET slug == TrimSuffix(f.name, MdExt)
         IN  IF ~LangIncluded(slug, lang) THEN <<>>
             ELSE IF ~f.readable THEN <<>>
             ELSE LET fm == ParseFrontmatter(f.content).fm
                      date == HomeDate(fm, f)
                  IN  <<[Slug |-> slug, Title |-> HomeTitle(fm, slug),
                         Date |-> date.Date, DateStr |-> date.DateStr]>>

RECURSIVE HomePosts(_, _)
HomePosts(files, lang) ==
    IF files = <<>> THEN <<>>
    ELSE HomePost(Head(files), lang) \o HomePosts(Tail(files), lang)

\* The permutations of 1..n.
PermsOf(n) == {p \in [1..n -> 1..n] : \A i, j \in 1..n : p[i] = p[j] => i = j}

\* less of the sort: posts[i].Date.After(posts[j].Date)
Less(a, b) == After(a.Date, b.Date)

\* sort.Slice(posts, less): the orders it may leave the posts in. The sort is
\* not stable: every order of the same posts in which no post has a post
\* that is less than it after it.
SortSlice(posts) ==
    {[i \in 1..Len(posts) |-> posts[p[i]]] : p \in
        {q \in PermsOf(Len(posts)) :
            \A i, j \in 1..Len(posts) : i < j => ~Less(posts[q[j]], posts[q[i]])}}

(***************************************************************************)
(* The handlers. Each request carries the client's cookie jar; the          *)
(* environment decides whether os.ReadDir and goldmark.Convert succeed and  *)
(* how the template ends. A response records the request and these          *)
(* outcomes next to what the handler produced.                              *)
(***************************************************************************)
Response(handler, req, env, out, lang, setCookie, posts, title, date, reads) ==
    [handler |-> handler, req |-> req, env |-> env,
     status |-> out.status, headers |-> out.headers, page |-> out.page,
     lang |-> lang, setCookie |-> setCookie, posts |-> posts,
     title |-> title, date |-> date, reads |-> reads]

Request(query, cookie, slug) == [query |-> query, cookie |-> cookie, slug |-> slug]

Env(readDirOk, convOk, tmplOutcome) ==
    [readDirOk |-> readDirOk, convOk |-> convOk, tmpl |-> tmplOutcome]

HomeHandler(query, readDirOk, tmplOutcome) ==
    LET h == setSecurityHeaders(NoHeaders)
        lang == ResolveLang(query, jar)
        cookie == LangCookie(lang)
        posts == HomePosts(dir, lang)
    IN  /\ \E sorted \in (IF readDirOk THEN SortSlice(posts) ELSE {<<>>}) :
              resp' = Response("home", Request(query, jar, <<>>),
                               Env(readDirOk, TRUE, tmplOutcome),
                               IF readDirOk THEN renderPage(h, tmplOutcome)
                               ELSE HttpError(h, 500),
                               lang, cookie, sorted, <<"H", "o", "m", "e">>, <<>>, <<>>)
        /\ jar' = Store(jar, cookie)
        /\ lastHomeLang' = lang
        /\ UNCHANGED <<arg, result, dir, lifecycle>>

ContactHandler(query, tmplOutcome) ==
    LET h == setSecurityHeaders(NoHeaders)
        lang == ResolveLang(query, jar)
        cookie == ContactCookie(lang)
    IN  /\ resp' = Response("contact", Request(query, jar, <<>>),
                            Env(TRUE, TRUE, tmplOutcome),
                            renderPage(h, tmplOutcome),
                            lang, cookie, <<>>, <<"C", "o", "n", "t", "a", "c", "t">>,
                            <<>>, <<>>)
        /\ jar' = Store(jar, cookie)
        /\ UNCHANGED <<arg, result, dir, lastHomeLang, lifecycle>>

\* The validator that lets every slug through.
AcceptAnySlug(slug) == TRUE

\* if !IsValidSlug(slug) { 400 }
SlugAccepted(slug) == IsValidSlug(slug)

\* sl.Read(slug) of the reader main installs.
SlugReaderRead(files, slug) == FileReaderRead(files, slug)

\* title := fm.Title, or the slug with hyphens as spaces, title-cased.
PostTitle(fm, slug) ==
    IF fm.Title = <<>> THEN toTitleCase(ReplaceAll(slug, "-", " ")) ELSE fm.Title

\* The date line of the post page, when the frontmatter date parses.
PostDate(fm) ==
    IF fm.Date # <<>> /\ ParseDate(fm.Date).ok
    THEN FormatDate(ParseDate(fm.Date).t) ELSE <<>>

PostHandler(slug, convOk, tmplOutcome) ==
    LET h == setSecurityHeaders(NoHeaders)
        req == Request(<<>>, jar, slug)
        env == Env(TRUE, convOk, tmplOutcome)
        read == SlugReaderRead(dir, slug)
        fm == ParseFrontmatter(read.content).fm
    IN  /\ resp' =
              IF ~SlugAccepted(slug)
              THEN Response("post", req, env, HttpError(h, 400),
                            <<>>, NoCookie, <<>>, <<>>, <<>>, <<>>)
              ELSE IF ~read.ok
              THEN Response("post", req, env, HttpError(h, 404),
                            <<>>, NoCookie, <<>>, <<>>, <<>>, <<slug>>)
              ELSE IF ~convOk
              THEN Response("post", req, env, HttpError(h, 500),
                            <<>>, NoCookie, <<>>, <<>>, <<>>, <<slug>>)
              ELSE Response("post", req, env, renderPage(h, tmplOutcome),
                            <<>>, NoCookie, <<>>, PostTitle(fm, slug), PostDate(fm),
                            <<slug>>)
        /\ UNCHANGED <<arg, result, dir, jar, lastHomeLang, lifecycle>>

(***************************************************************************)
(* Directories to serve from, requests to make.                            *)
(***************************************************************************)
Nl == <<"\n">>

Doc(lines, body) == Delim \o Nl \o Concat(lines) \o Delim \o Nl \o body

DateLineOf(date) == DateKey \o <<":", " ">> \o date \o Nl

Jan20 == <<"2", "0", "2", "6", "-", "0", "1", "-", "2", "0">>
Jan15 == <<"2", "0", "2", "6", "-", "0", "1", "-", "1", "5">>
Month13 == <<"2", "0", "2", "6", "-", "1", "3", "-", "0", "1">>
YearZero == <<"0", "0", "0", "0", "-", "1", "2", "-", "3", "1">>

Jan18Noon == [y |-> 2026, m |-> 1, d |-> 18, h |-> 12]

\* What a file of the directory may be: dated and titled, dated, with a date
\* that does not parse, without frontmatter and without file information,
\* dated in the year 0000, unreadable.
FileKinds ==
    {[content |-> Doc(<<TitleLine, DateLineOf(Jan20)>>, <<"x">>), mtime |-> Jan18Noon,
      readable |-> TRUE, infoOk |-> TRUE],
     [content |-> Doc(<<DateLineOf(Jan15)>>, <<"x">>), mtime |-> Jan18Noon,
      readable |-> TRUE, infoOk |-> TRUE],
     [content |-> Doc(<<DateLineOf(Month13)>>, <<"x">>), mtime |-> Jan18Noon,
      readable |-> TRUE, infoOk |-> TRUE],
     [content |-> <<"x">>, mtime |-> Jan18Noon, readable |-> TRUE, infoOk |-> FALSE],
     [content |-> Doc(<<DateLineOf(YearZero)>>, <<"x">>), mtime |-> Jan18Noon,
      readable |-> TRUE, infoOk |-> TRUE],
     [content |-> <<>>, mtime |-> Jan18Noon, readable |-> FALSE, infoOk |-> TRUE]}

\* File names, in the order os.ReadDir lists them (by name, bytewise).
NamePool ==
    <<<<"a", ".", "m", "d">>,
      <<"e", "n", "-", "a">>,
      <<"e", "n", "-", "a", ".", "m", "d">>,
      <<"t", "h", "-", "a", ".", "m", "d">>,
      <<"t", "h", "e", "n", ".", "m", "d">>>>

RECURSIVE Ascending(_)
Ascending(S) ==
    IF S = {} THEN <<>>
    ELSE LET least == CHOOSE x \in S : \A y \in S : x <= y
         IN  <<least>> \o Ascending(S \ {least})

\* The directories of at most n files.
Dirs(n) ==
    UNION {{[i \in 1..Len(Ascending(S)) |->
                [name |-> NamePool[Ascending(S)[i]]] @@ kind[Ascending(S)[i]]] :
            kind \in [S -> FileKinds]} :
           S \in {T \in SUBSET (1..Len(NamePool)) : Cardinality(T) <= n}}

\* The lang query parameter: absent or empty, a known locale, others.
QueryValues == {<<>>, En, Th, <<"f", "r">>, <<"E", "N">>}

\* What the client's jar may hold at first.
InitialJars == {NoCookie} \cup {LangCookie(v) : v \in {<<>>, En, Th, <<"f", "r">>}}

\* The {slug} of a post request: slugs of posts, of no post, a path out of
\* the posts directory, and every string of up to two of 'a', '.' and '/'.
SlugPool ==
    {<<>>, <<"a">>, <<"e", "n", "-", "a">>, <<"t", "h", "-", "a">>,
     <<"t", "h", "e", "n">>, <<"b", "_", "7">>,
     <<".", ".", "/", "R", "E", "A", "D", "M", "E">>, <<"a", "/", "b">>,
     <<"a", ".", "m", "d">>, <<"a", "\n">>}
    \cup SeqsUpTo({"a", ".", "/"}, 2)

(***************************************************************************)
(* Spec: a client browsing a site of four posts (or none).                  *)
(***************************************************************************)
SiteDirs ==
    {<<>>,
     <<[name |-> NamePool[1], content |-> <<"x">>, mtime |-> Jan18Noon,
        readable |-> TRUE, infoOk |-> TRUE],
       [name |-> NamePool[3], content |-> Doc(<<TitleLine, DateLineOf(Jan20)>>, <<"x">>),
        mtime |-> Jan18Noon, readable |-> TRUE, infoOk |-> TRUE],
       [name |-> NamePool[4], content |-> Doc(<<DateLineOf(Jan15)>>, <<"x">>),
        mtime |-> Jan18Noon, readable |-> TRUE, infoOk |-> TRUE],
       [name |-> NamePool[5], content |-> <<>>, mtime |-> Jan18Noon,
        readable |-> FALSE, infoOk |-> TRUE]>>}

Init ==
    /\ arg = <<>>
    /\ result = NoResult
    /\ dir \in SiteDirs
    /\ jar \in InitialJars
    /\ resp = NoResponse
    /\ lastHomeLang = <<>>
    /\ Serving

Home == \E query \in QueryValues, readDirOk \in BOOLEAN, tmplOutcome \in TemplateOutcomes :
            HomeHandler(query, readDirOk, tmplOutcome)

Contact == \E query \in QueryValues, tmplOutcome \in TemplateOutcomes :
               ContactHandler(query, tmplOutcome)

Post == \E slug \in SlugPool, convOk \in BOOLEAN, tmplOutcome \in TemplateOutcomes :
            PostHandler(slug, convOk, tmplOutcome)

Next == Home \/ Contact \/ Post

Spec == Init /\ [][Next]_vars

(***************************************************************************)
(* SpecListing: the home page over every directory of a few files.          *)
(***************************************************************************)
InitListing ==
    /\ arg = <<>>
    /\ result = NoResult
    /\ dir \in Dirs(MaxFiles)
    /\ jar = NoCookie
    /\ resp = NoResponse
    /\ lastHomeLang = <<>>
    /\ Serving

\* One home request per directory.
HomeListing ==
    /\ resp = NoResponse
    /\ \E query \in {<<>>, En, Th}, readDirOk \in BOOLEAN, tmplOutcome \in TemplateOutcomes :
           HomeHandler(query, readDirOk, tmplOutcome)

NextListing == HomeListing

SpecListing == InitListing /\ [][NextListing]_vars

(***************************************************************************)
(* Claims about the pure functions.                                        *)
(***************************************************************************)

\* C2: IsValidSlug(s) is true if and only if s is non-empty and every
\* character of s is an ASCII letter, a digit, a hyphen or an underscore; so
\* it is false for the empty string and for every string that holds '/', '.',
\* white space (a trailing newline included), '<', '>' or '&'.
SlugValidIffSafeChars ==
    result.fn = "IsValidSlug" =>
        /\ result.ok <=>
              /\ Len(arg) > 0
              /\ \A i \in 1..Len(arg) :
                    arg[i] \in LowerLetters \cup UpperLetters \cup Digits \cup {"-", "_"}
        /\ (arg = <<>>) => ~result.ok
        /\ (\E i \in 1..Len(arg) : arg[i] \in {"/", ".", " ", "\n", "<", ">", "&"})
              => ~result.ok

\* A slug of class characters followed by a newline has been rejected.
SlugTrailingNewlineRejected ==
    /\ result.fn = "IsValidSlug"
    /\ arg = <<"a", "7", "\n">>
    /\ ~result.ok

\* The positions, after the first three characters, where '---' occurs.
LaterDelims(s) ==
    {k \in 4..(Len(s) - 2) : s[k] = "-" /\ s[k + 1] = "-" /\ s[k + 2] = "-"}

StartsWithDelim(s) ==
    Len(s) >= 3 /\ s[1] = "-" /\ s[2] = "-" /\ s[3] = "-"

\* C4: ParseFrontmatter fails open: an input that does not start with '---',
\* or starts with it and holds no later '---', gives empty frontmatter and a
\* body equal to the input, character for character.
FailOpenKeepsInput ==
    (result.fn = "ParseFrontmatter"
        /\ (~StartsWithDelim(arg) \/ LaterDelims(arg) = {}))
    => /\ result.fm.Title = <<>>
       /\ result.fm.Date = <<>>
       /\ result.body = arg

\* An input with an opening delimiter, a metadata line, no closing delimiter
\* and white space at its end came back whole.
FailOpenUnclosedSeen ==
    /\ result.fn = "ParseFrontmatter"
    /\ StartsWithDelim(arg)
    /\ LaterDelims(arg) = {}
    /\ Len(arg) > Len(TitleLine) + 3
    /\ SubSeq(arg, 4, 3 + Len(TitleLine)) = TitleLine
    /\ arg[Len(arg)] \in WhiteSpace
    /\ result.body = arg

\* t is s without its leading and trailing white space.
IsTrimOf(t, s) ==
    \E i \in 1..(Len(s) + 1) : \E j \in 0..Len(s) :
        /\ t = SubSeq(s, i, j)
        /\ \A n \in 1..(i - 1) : s[n] \in WhiteSpace
        /\ \A n \in (j + 1)..Len(s) : s[n] \in WhiteSpace
        /\ t # <<>> => (t[1] \notin WhiteSpace /\ t[Len(t)] \notin WhiteSpace)

FirstLaterDelim(s) ==
    CHOOSE k \in LaterDelims(s) : \A m \in LaterDelims(s) : k <= m

\* C5: for an input that starts with '---' and holds a later '---', the text
\* decoded is exactly the text between the opening delimiter and the first
\* later '---', the body is the text after that occurrence without its
\* leading and trailing white space, and with nothing between the two
\* delimiters the frontmatter is empty and no error results.
ClosedFrontmatterSplit ==
    (result.fn = "ParseFrontmatter" /\ StartsWithDelim(arg) /\ LaterDelims(arg) # {})
    => LET k == FirstLaterDelim(arg)
       IN  /\ result.decoded = <<SubSeq(arg, 4, k - 1)>>
           /\ IsTrimOf(result.body, SubSeq(arg, k + 3, Len(arg)))
           /\ k = 4 => (result.fm = EmptyFM /\ ~result.warned)

\* A document with a title between its delimiters and a second '---' in its
\* body was split at the first of them, and the title was decoded.
ClosedFrontmatterSeen ==
    /\ result.fn = "ParseFrontmatter"
    /\ StartsWithDelim(arg)
    /\ Cardinality(LaterDelims(arg)) >= 2
    /\ result.decoded = <<TitleLine>>
    /\ result.fm.Title = <<"A">>
    /\ result.body # <<>>

(***************************************************************************)
(* Claims about the handlers.                                              *)
(***************************************************************************)
AllowedSlugChars == LowerLetters \cup UpperLetters \cup Digits \cup {"-", "_"}

SafeSlug(s) == Len(s) > 0 /\ \A i \in 1..Len(s) : s[i] \in AllowedSlugChars

TraversalSlug == <<".", ".", "/", "R", "E", "A", "D", "M", "E">>

\* C1: in PostHandler the reader's Read is called only for a slug that passed
\* IsValidSlug: a request whose slug fails validation is answered 400 and
\* Read is not called for it, whatever the reader holds.
ReadOnlyAfterValidation ==
    resp.handler = "post" =>
        /\ \A i \in 1..Len(resp.reads) : SafeSlug(resp.reads[i])
        /\ ~SafeSlug(resp.req.slug) => (resp.status = 400 /\ resp.reads = <<>>)

\* A path traversal slug, for which the reader would have found a file, was
\* answered 400 without a read.
TraversalRejectedUnread ==
    /\ resp.handler = "post"
    /\ resp.req.slug = TraversalSlug
    /\ FileReaderRead(dir, TraversalSlug).ok
    /\ resp.status = 400
    /\ resp.reads = <<>>

\* The posts directory holds a readable file <slug>.md.
Resolvable(files, slug) ==
    \E i \in 1..Len(files) : files[i].name = slug \o <<".", "m", "d">> /\ files[i].readable

IsMd(name) ==
    /\ Len(name) >= 3
    /\ name[Len(name) - 2] = "." /\ name[Len(name) - 1] = "m" /\ name[Len(name)] = "d"

Stem(name) == SubSeq(name, 1, Len(name) - 3)

Tagged(s, lang) == Len(s) >= 3 /\ s[1] = lang[1] /\ s[2] = lang[2] /\ s[3] = "-"

Listed(s, lang) == (~Tagged(s, Th) /\ ~Tagged(s, En)) \/ Tagged(s, lang)

ExpectedSlugs(files, lang) ==
    {Stem(files[i].name) : i \in {j \in 1..Len(files) :
        IsMd(files[j].name) /\ files[j].readable /\ Listed(Stem(files[j].name), lang)}}

\* C6: the home listing holds a readable '.md' file with stem s if and only
\* if s starts with neither 'th-' nor 'en-', or s starts with the resolved
\* locale and '-'; a file without the '.md' extension is not listed.
ListingMatchesLanguage ==
    (resp.handler = "home" /\ resp.env.readDirOk) =>
        /\ resp.lang \in {En, Th}
        /\ {resp.posts[i].Slug : i \in 1..Len(resp.posts)} = ExpectedSlugs(dir, resp.lang)
        /\ Len(resp.posts) = Cardinality(ExpectedSlugs(dir, resp.lang))

\* Under th, with en-a.md and then.md readable in the directory, then is
\* listed and en-a is not.
EnglishPostHiddenFromThai ==
    /\ resp.handler = "home"
    /\ resp.env.readDirOk
    /\ resp.lang = Th
    /\ \E i \in 1..Len(dir) : dir[i].name = NamePool[3] /\ dir[i].readable
    /\ \E i \in 1..Len(dir) : dir[i].name = NamePool[5] /\ dir[i].readable
    /\ \E i \in 1..Len(resp.posts) : resp.posts[i].Slug = <<"t", "h", "e", "n">>
    /\ \A i \in 1..Len(resp.posts) : resp.posts[i].Slug # <<"e", "n", "-", "a">>

\* The posts of s, each as often as it occurs.
Occurrences(s, x) == Cardinality({i \in 1..Len(s) : s[i] = x})

\* C7 as claimed: the listing is ordered by resolved date, most recent first;
\* a post with neither a frontmatter date nor a modification time comes
\* after every post that has a date; the sort drops and duplicates nothing.
ListingNewestFirstUndatedLast ==
    (resp.handler = "home" /\ resp.env.readDirOk) =>
        /\ \A i \in 1..(Len(resp.posts) - 1) :
              Instant(resp.posts[i].Date) >= Instant(resp.posts[i + 1].Date)
        /\ \A i, j \in 1..Len(resp.posts) :
              (i < j /\ resp.posts[i].DateStr = <<>>) => resp.posts[j].DateStr = <<>>
        /\ Len(resp.posts) = Len(HomePosts(dir, resp.lang))
        /\ \A i \in 1..Len(resp.posts) :
              Occurrences(resp.posts, resp.posts[i])
                  = Occurrences(HomePosts(dir, resp.lang), resp.posts[i])

ExpectedLocale(query, cookie) ==
    LET candidate == IF query # <<>> THEN query
                     ELSE IF cookie.present THEN cookie.value ELSE <<>>
    IN  IF candidate \in {En, Th} THEN candidate ELSE Th

\* C8: HomeHandler and ContactHandler resolve 'en' or 'th': the candidate is
\* the lang query parameter when non-empty, otherwise the cookie when there
\* is one; the result is the candidate when it is 'en' or 'th', and 'th'
\* otherwise, also when an unknown query parameter comes with a valid cookie.
LocaleResolution ==
    resp.handler \in {"home", "contact"} =>
        /\ resp.lang \in {En, Th}
        /\ resp.lang = ExpectedLocale(resp.req.query, resp.req.cookie)
        /\ (resp.req.query \notin {<<>>, En, Th}) => resp.lang = Th

\* A request with lang=fr and the cookie en resolved th.
UnknownQueryBeatsCookie ==
    /\ resp.handler \in {"home", "contact"}
    /\ resp.req.query = <<"f", "r">>
    /\ resp.req.cookie.present
    /\ resp.req.cookie.value = En
    /\ resp.lang = Th

\* C9: every home request sets the lang cookie (path '/', max-age 31536000)
\* to the locale it resolved, so a home or contact request without a lang
\* query parameter resolves the locale of the client's latest home request.
HomeLocalePersists ==
    [][/\ resp'.handler = "home" =>
             /\ resp'.setCookie = [present |-> TRUE, value |-> resp'.lang,
                                   path |-> "/", maxAge |-> 31536000]
             /\ jar' = resp'.setCookie
       /\ (resp'.handler \in {"home", "contact"} /\ resp'.req.query = <<>>
              /\ lastHomeLang # <<>>)
             => resp'.lang = lastHomeLang]_vars

\* A contact request without a query parameter resolved en, the locale of
\* the latest home request.
ContactFollowsHomeLocale ==
    /\ resp.handler = "contact"
    /\ resp.req.query = <<>>
    /\ lastHomeLang = En
    /\ resp.lang = En

\* C10 as claimed: after GET /contact?lang=L with L in {en, th}, the client's
\* next request without a lang query parameter resolves L.
ContactLocalePersists ==
    [][(/\ resp.handler = "contact"
        /\ resp.req.query \in {En, Th}
        /\ resp'.handler \in {"home", "contact"}
        /\ resp'.req.query = <<>>)
       => resp'.lang = resp.req.query]_vars

CookieLocale(cookie) ==
    IF cookie.present /\ cookie.value \in {En, Th} THEN cookie.value ELSE Th

\* C10, amended: handling a contact request resolves the locale but writes no
\* cookie: the client's cookie is as it was, and the client's next home or
\* contact request without a lang query parameter resolves the locale of the
\* cookie the contact request carried ('th' when it carried none or an
\* unknown one), whatever L was.
ContactLeavesCookie ==
    [][/\ resp'.handler = "contact" => (jar' = jar /\ ~resp'.setCookie.present)
       /\ (/\ resp.handler = "contact"
           /\ resp'.handler \in {"home", "contact"}
           /\ resp'.req.query = <<>>)
          => resp'.lang = CookieLocale(resp.req.cookie)]_vars

\* GET /contact?lang=en was answered in English and the client still has no
\* lang cookie.
ContactEnglishNoCookie ==
    /\ resp.handler = "contact"
    /\ resp.req.query = En
    /\ resp.lang = En
    /\ jar = NoCookie

(***************************************************************************)
(* Security headers.                                                       *)
(***************************************************************************)
HasSecurityHeaders(h) ==
    /\ h.XContentTypeOptions = "nosniff"
    /\ h.XFrameOptions = "DENY"
    /\ h.XXSSProtection = "1; mode=block"
    /\ h.ReferrerPolicy = "strict-origin-when-cross-origin"

\* C11: every response of the home, contact and post handlers, whether its
\* status is 200, 400, 404 or 500, carries X-Content-Type-Options: nosniff,
\* X-Frame-Options: DENY, X-XSS-Protection: 1; mode=block and
\* Referrer-Policy: strict-origin-when-cross-origin.
SecurityHeadersOnEveryResponse ==
    resp.handler # "none" =>
        /\ resp.handler \in {"home", "contact", "post"}
        /\ resp.status \in {200, 400, 404, 500}
        /\ HasSecurityHeaders(resp.headers)

\* A post request for a well-formed slug without a file was answered 404 by
\* http.Error, and the reply carries the four headers.
NotFoundCarriesSecurityHeaders ==
    /\ resp.handler = "post"
    /\ resp.status = 404
    /\ resp.page = "error"
    /\ resp.headers.ContentType = "text/plain; charset=utf-8"
    /\ HasSecurityHeaders(resp.headers)

(***************************************************************************)
(* Frontmatter whose decoding fails.                                       *)
(***************************************************************************)
\* C13: when yaml.Unmarshal returns an error for the text between the two
\* delimiters, ParseFrontmatter returns the empty PostFrontmatter (title and
\* date both empty, nothing kept from a partial decode) and the trimmed text
\* after the closing delimiter, and returns normally (the error is only
\* logged).
FailedDecodeGivesEmptyFrontmatter ==
    (result.fn = "ParseFrontmatter" /\ result.warned) =>
        /\ result.fm = EmptyFM
        /\ result.decoded = <<SubSeq(arg, 4, FirstLaterDelim(arg) - 1)>>
        /\ IsTrimOf(result.body,
                    SubSeq(arg, FirstLaterDelim(arg) + Len(Delim), Len(arg)))

(***************************************************************************)
(* Posts with equal dates.                                                 *)
(***************************************************************************)
\* Where the post with this slug stands in a listing.
PositionOf(posts, slug) == CHOOSE k \in 1..Len(posts) : posts[k].Slug = slug

\* C14: posts of the home listing whose resolved dates are equal stand in the
\* order in which the directory enumeration produced them (the sort is
\* stable), for every number of posts.
ListingTiesInEnumerationOrder ==
    (resp.handler = "home" /\ resp.env.readDirOk) =>
        LET enumerated == HomePosts(dir, resp.lang)
        IN  \A i, j \in 1..Len(enumerated) :
                (i < j /\ Instant(enumerated[i].Date) = Instant(enumerated[j].Date))
                => PositionOf(resp.posts, enumerated[i].Slug)
                       < PositionOf(resp.posts, enumerated[j].Slug)

(***************************************************************************)
(* The title of a post in the listing and on its page.                     *)
(***************************************************************************)
\* The title of the post in this file: its frontmatter title when that is not
\* empty, else its slug without the language prefix, hyphens as spaces, each
\* word capitalized.
ClaimedTitle(f) ==
    LET slug == Stem(f.name)
        fm == ParseFrontmatter(f.content).fm
        bare == IF Tagged(slug, Th) \/ Tagged(slug, En)
                THEN SubSeq(slug, 4, Len(slug)) ELSE slug
    IN  IF fm.Title # <<>> THEN fm.Title
        ELSE toTitleCase(ReplaceAll(bare, "-", " "))

\* C15: a post that the home listing shows and whose page the client opens
\* next has the same title in both places: the frontmatter title when that
\* is not empty, else the slug without its 'th-' or 'en-' prefix, hyphens as
\* spaces, each word capitalized.
ListingTitleIsPageTitle ==
    [][(/\ resp.handler = "home"
        /\ resp.env.readDirOk
        /\ resp'.handler = "post"
        /\ resp'.status = 200)
       => \A i \in 1..Len(resp.posts) :
              resp.posts[i].Slug = resp'.req.slug
              => /\ resp.posts[i].Title = resp'.title
                 /\ \A k \in 1..Len(dir) :
                        (IsMd(dir[k].name) /\ Stem(dir[k].name) = resp'.req.slug)
                        => resp'.title = ClaimedTitle(dir[k])]_vars

(***************************************************************************)
(* The life of the process: main, which ends in server.ListenAndServe, and *)
(* the goroutine that waits for SIGINT or SIGTERM and calls                *)
(* server.Shutdown with a context of 30 seconds. A request is accepted,    *)
(* then its handler runs, then it has completed; when the process ends,    *)
(* the handlers still running are cut off.                                 *)
(***************************************************************************)
GracePeriod == 30

Signals == {"SIGINT", "SIGTERM"}

Running == mainPc # "exited"

\* The process ends (main returns, os.Exit, or a signal's default action):
\* no goroutine runs on.
Exit ==
    /\ mainPc' = "exited"
    /\ aborted' = aborted \cup inFlight
    /\ inFlight' = {}

\* server.ListenAndServe() is called. After Shutdown it returns
\* ErrServerClosed at once and main returns; when the address cannot be
\* bound it returns that error and log.Fatal ends the process; otherwise the
\* accept loop runs.
ListenAndServe(bindOk) ==
    /\ mainPc = "start"
    /\ IF ~inShutdown /\ bindOk
       THEN mainPc' = "serving" /\ UNCHANGED <<inFlight, aborted>>
       ELSE Exit
    /\ UNCHANGED <<sigPc, sigChan, inShutdown, accepted, completed, elapsed>>
    /\ UNCHANGED web

\* signal.Notify(sigChan, SIGINT, SIGTERM) in the goroutine.
Notify ==
    /\ Running
    /\ sigPc = "start"
    /\ sigPc' = "waiting"
    /\ UNCHANGED <<mainPc, sigChan, inShutdown, accepted, inFlight, completed,
                   aborted, elapsed>>
    /\ UNCHANGED web

\* The process is sent a signal. Before signal.Notify the default action
\* ends the process; after it the signal is put in sigChan unless the
\* channel is full.
Signal(sig) ==
    /\ Running
    /\ IF sigPc = "start"
       THEN Exit /\ UNCHANGED sigChan
       ELSE /\ sigChan' = IF Len(sigChan) < 1 THEN Append(sigChan, sig) ELSE sigChan
            /\ UNCHANGED <<mainPc, inFlight, aborted>>
    /\ UNCHANGED <<sigPc, inShutdown, accepted, completed, elapsed>>
    /\ UNCHANGED web

\* <-sigChan, and the log line.
Receive ==
    /\ Running
    /\ sigPc = "waiting"
    /\ sigChan # <<>>
    /\ sigChan' = Tail(sigChan)
    /\ sigPc' = "received"
    /\ UNCHANGED <<mainPc, inShutdown, accepted, inFlight, completed, aborted, elapsed>>
    /\ UNCHANGED web

\* context.WithTimeout(_, 30*time.Second) and the start of server.Shutdown:
\* the listener is closed, the wait for the running handlers begins.
ShutdownBegins ==
    /\ Running
    /\ sigPc = "received"
    /\ sigPc' = "shutdown"
    /\ inShutdown' = TRUE
    /\ elapsed' = 0
    /\ UNCHANGED <<mainPc, sigChan, accepted, inFlight, completed, aborted>>
    /\ UNCHANGED web

\* The accept loop of ListenAndServe takes a connection and starts the
\* handler of its request.
Accept ==
    /\ mainPc = "serving"
    /\ ~inShutdown
    /\ accepted < MaxRequests
    /\ accepted' = accepted + 1
    /\ inFlight' = inFlight \cup {accepted + 1}
    /\ UNCHANGED <<mainPc, sigPc, sigChan, inShutdown, completed, aborted, elapsed>>
    /\ UNCHANGED web

\* The handler of a request returns.
Finish(r) ==
    /\ Running
    /\ r \in inFlight
    /\ inFlight' = inFlight \ {r}
    /\ completed' = completed \cup {r}
    /\ UNCHANGED <<mainPc, sigPc, sigChan, inShutdown, accepted, aborted, elapsed>>
    /\ UNCHANGED web

\* ListenAndServe returns ErrServerClosed once Shutdown has closed the
\* listener; the error is not fatal, and main returns.
ServeReturns ==
    /\ mainPc = "serving"
    /\ inShutdown
    /\ Exit
    /\ UNCHANGED <<sigPc, sigChan, inShutdown, accepted, completed, elapsed>>
    /\ UNCHANGED web

\* A second of the shutdown context passes.
Tick ==
    /\ Running
    /\ sigPc = "shutdown"
    /\ elapsed < GracePeriod
    /\ elapsed' = elapsed + 1
    /\ UNCHANGED <<mainPc, sigPc, sigChan, inShutdown, accepted, inFlight, completed,
                   aborted>>
    /\ UNCHANGED web

\* server.Shutdown returns: nil when no handler is running any more, the
\* context's error when the 30 seconds are over; the goroutine ends.
ShutdownReturns ==
    /\ Running
    /\ sigPc = "shutdown"
    /\ inFlight = {} \/ elapsed = GracePeriod
    /\ sigPc' = "done"
    /\ UNCHANGED <<mainPc, sigChan, inShutdown, accepted, inFlight, completed,
                   aborted, elapsed>>
    /\ UNCHANGED web

InitShutdown ==
    /\ arg = <<>>
    /\ result = NoResult
    /\ dir = <<>>
    /\ jar = NoCookie
    /\ resp = NoResponse
    /\ lastHomeLang = <<>>
    /\ Booted

RequestPool == 1..MaxRequests

StartServer == \E bindOk \in BOOLEAN : ListenAndServe(bindOk)

SendSignal == \E sig \in Signals : Signal(sig)

HandlerReturns == \E r \in RequestPool : Finish(r)

NextShutdown ==
    \/ StartServer
    \/ Notify
    \/ SendSignal
    \/ Receive
    \/ ShutdownBegins
    \/ Accept
    \/ HandlerReturns
    \/ ServeReturns
    \/ Tick
    \/ ShutdownReturns

SpecShutdown == InitShutdown /\ [][NextShutdown]_vars

\* C12: once a shutdown signal (SIGINT or SIGTERM) has been received and
\* server.Shutdown has begun, no new request is accepted, and the process
\* does not cut off a request that is in flight before the grace period of
\* 30 seconds is over: until then every such request may run to completion.
GracefulShutdown ==
    [][/\ inShutdown => accepted' = accepted
       /\ (inShutdown /\ aborted' # aborted) => elapsed = GracePeriod]_vars

====
